---- MODULE Spec2Model ----
(***************************************************************************)
(* State-machine model of the Bayt job-listing crawler:                    *)
(*   src/src/extractors/utils.py        HttpClient.fetch, clean_text,      *)
(*                                      build_absolute_url                 *)
(*   src/src/extractors/bayt_parser.py  BaytJobScraper.scrape_searches,    *)
(*                                      _scrape_single_search,             *)
(*                                      _parse_listing_page,               *)
(*                                      _parse_job_card,                   *)
(*                                      _find_next_page_url                *)
(*                                                                         *)
(* Text is a sequence of tokens.  "CL" is the literal phrase               *)
(* "Career Level", ":" a colon, " " a whitespace character and "x" any     *)
(* other character.  URLs and hrefs are strings; every href served by the  *)
(* site is absolute, so urljoin returns it unchanged.                      *)
(***************************************************************************)
EXTENDS Integers, Sequences, FiniteSets, TLC

\* ------------------------------------------------------------ bounds ----
MaxSearches == 2      \* search definitions handed to scrape_searches
MaxItems == 2         \* largest item cap (maxItems, max_items_fallback)
MaxCards == 2         \* job cards on one listing page
MaxLen == 3           \* tokens in a text node of a card of the card site

\* ------------------------------------------------ python values ----
None == "<None>"
Urls == {"u1", "u2"}
\* truth value of an Optional[str]: None and "" are falsy
\* Truthy for "is not None"
Truthy_NotNone(v) == v # None

Truthy(v) == v # None /\ v # ""

Min(a, b) == IF a < b THEN a ELSE b

\* s[1..n]
Take(s, n) == SubSeq(s, 1, Min(n, Len(s)))

RECURSIVE Flatten(_)
Flatten(ss) == IF ss = <<>> THEN <<>> ELSE Head(ss) \o Flatten(Tail(ss))

\* ------------------------------------------------------- text ----
Tokens == {"CL", ":", " ", "x"}

\* the k-th smallest member of a set of indices
Nth(S, k) == CHOOSE i \in S : Cardinality({j \in S : j < i}) = k - 1

\* str.lstrip(), str.rstrip(), str.strip()
LStrip(s) ==
    SubSeq(s, Cardinality({i \in 1..Len(s) : \A j \in 1..i : s[j] = " "}) + 1, Len(s))

RStrip(s) ==
    SubSeq(s, 1, Len(s) - Cardinality({i \in 1..Len(s) : \A j \in i..Len(s) : s[j] = " "}))

Strip(s) == RStrip(LStrip(s))

\* re.sub(r"\s+", " ", text): every run of whitespace becomes one space, that
\* is, a space followed by a space goes
Kept(s) == {i \in 1..Len(s) : ~(s[i] = " " /\ i < Len(s) /\ s[i + 1] = " ")}

CollapseWs(s) == [k \in 1..Cardinality(Kept(s)) |-> s[Nth(Kept(s), k)]]

\* utils.clean_text
clean_text(text) == Strip(CollapseWs(text))

\* str.split(sep): the pieces between the separators, at least one piece
Seps(s, sep) == {i \in 1..Len(s) : s[i] = sep}

Split(s, sep) ==
    [k \in 1..Cardinality(Seps(s, sep)) + 1 |->
        SubSeq(s,
               IF k = 1 THEN 1 ELSE Nth(Seps(s, sep), k - 1) + 1,
               IF k = Cardinality(Seps(s, sep)) + 1 THEN Len(s)
               ELSE Nth(Seps(s, sep), k) - 1)]

Contains(s, tok) == \E i \in 1..Len(s) : s[i] = tok

\* utils.build_absolute_url; hrefs are absolute, so urljoin(base, link) = link
build_absolute_url(base_url, link) == IF ~Truthy(link) THEN "" ELSE link

\* ------------------------------------------------------- cards ----
\* A job card as _parse_job_card reads it:
\*   strings  its text nodes, in document order
\*   anchor   index in strings of the text of title_el (the first of
\*            "h2 a, h3 a, a.job-title, a.js-job-title", else the first <a>),
\*            0 when the card has no <a>
\*   href     title_el.get("href"): None when the attribute is missing
\*   faulty   the node is malformed: a lookup on it raises
Card(strings, anchor, href, faulty) ==
    [strings |-> strings, anchor |-> anchor, href |-> href, faulty |-> faulty]

\* card.find(string=lambda s: s and "Career Level" in s): index of the first
\* text node holding the phrase, 0 when there is none
CareerEl(card) ==
    LET hits == {i \in 1..Len(card.strings) : Contains(card.strings[i], "CL")}
    IN  IF hits = {} THEN 0 ELSE CHOOSE i \in hits : \A j \in hits : i <= j

\* lines 189-197: text = career_el.strip(); parts = text.split(":");
\* clean_text(parts[1]) when there is more than one part
CareerLevel(card) ==
    IF CareerEl(card) = 0 THEN <<>>
    ELSE LET text == Strip(card.strings[CareerEl(card)])
             parts == Split(text, ":")
         IN  IF Len(parts) > 1 THEN clean_text(parts[2]) ELSE <<>>

JobTitle(card) ==
    IF card.anchor # 0 THEN clean_text(card.strings[card.anchor]) ELSE <<>>

JobLink(card, current_url) ==
    build_absolute_url(current_url, IF card.anchor # 0 THEN card.href ELSE "")

\* Inadmissible for "if not job_title"
Inadmissible_TitleOnly(job_title, job_link) == job_title = <<>>

\* lines 214-217: the card has neither a title nor a link
Inadmissible(job_title, job_link) == job_title = <<>> /\ job_link = ""

JobListing(search_url, job_title, job_link, job_career_level) ==
    [searchUrl |-> search_url, jobTitle |-> job_title, jobLink |-> job_link,
     jobCareerLevel |-> job_career_level]

\* JobListing.to_dict
to_dict(job) ==
    [searchUrl |-> job.searchUrl, jobTitle |-> job.jobTitle,
     jobLink |-> job.jobLink, jobCareerLevel |-> job.jobCareerLevel]

\* _parse_job_card, for a card that does not raise: <<>> is None, <<job>> a job
_parse_job_card(card, search_url, current_url) ==
    IF Inadmissible(JobTitle(card), JobLink(card, current_url)) THEN <<>>
    ELSE << JobListing(search_url, JobTitle(card), JobLink(card, current_url),
                       CareerLevel(card)) >>

\* lines 122-128: one pass of the card loop; an exception raised by
\* _parse_job_card is caught and the card is dropped
ParseCard(card, search_url, current_url) ==
    IF card.faulty THEN <<>> ELSE _parse_job_card(card, search_url, current_url)

\* ParseCards with the try around the whole loop: a card that raises ends it
RECURSIVE ParseCards_StopAtRaise(_, _, _)
ParseCards_StopAtRaise(cards, search_url, current_url) ==
    IF cards = <<>> \/ Head(cards).faulty THEN <<>>
    ELSE ParseCard(Head(cards), search_url, current_url)
         \o ParseCards_StopAtRaise(Tail(cards), search_url, current_url)

RECURSIVE ParseCards(_, _, _)
ParseCards(cards, search_url, current_url) ==
    IF cards = <<>> THEN <<>>
    ELSE ParseCard(Head(cards), search_url, current_url)
         \o ParseCards(Tail(cards), search_url, current_url)

\* ------------------------------------------------------- pages ----
\* The hrefs _find_next_page_url looks at: rel of a[rel='next'], cls of
\* "a.next, a.pagination-next, li.next a", num of the <a> in the <li> after
\* "ul.pagination li.active, ul.pagination li.selected".  None: no such
\* element, or it has no href.
Links(rel, cls, num) == [rel |-> rel, cls |-> cls, num |-> num]

\* _find_next_page_url: the first strategy with a non-empty href wins
_find_next_page_url(links, current_url) ==
    IF Truthy(links.rel) THEN build_absolute_url(current_url, links.rel)
    ELSE IF Truthy(links.cls) THEN build_absolute_url(current_url, links.cls)
    ELSE IF Truthy(links.num) THEN build_absolute_url(current_url, links.num)
    ELSE None

\* _parse_listing_page resolving no next page for a page without jobs
_parse_listing_page_StopOnEmpty(page, search_url, current_url) ==
    [jobs |-> ParseCards(page.cards, search_url, current_url),
     next_page_url |->
         IF ParseCards(page.cards, search_url, current_url) = <<>> THEN None
         ELSE _find_next_page_url(page.links, current_url)]

\* _parse_listing_page: (jobs, next_page_url)
_parse_listing_page(page, search_url, current_url) ==
    [jobs |-> ParseCards(page.cards, search_url, current_url),
     next_page_url |-> _find_next_page_url(page.links, current_url)]

\* response.text of a successful GET; html is None when fetch gave up
Body(cards, links) == [kind |-> "body", cards |-> cards, links |-> links]
NoBody == [kind |-> "none", cards |-> <<>>, links |-> Links(None, None, None)]
Unbound == [kind |-> "unbound", cards |-> <<>>, links |-> Links(None, None, None)]

SeqsUpTo(S, n) == UNION {[1..k -> S] : k \in 0..n}

\* Cards of the listing site: two postings, a stray <li> carrying text but
\* neither title nor link, a link-only card and a malformed node.
CardA == Card(<< <<"x">>, <<"CL", ":", "x">> >>, 1, "j1", FALSE)
CardB == Card(<< <<" ">> >>, 1, "j2", FALSE)
CardStray == Card(<< <<"CL", ":", "x">> >>, 0, None, FALSE)
CardFaulty == Card(<< <<"x">> >>, 1, "j1", TRUE)
SiteCards == {CardA, CardB, CardStray, CardFaulty}

\* Pagination markup of the listing site: none, each strategy alone, and all
\* three at once with different targets.
SiteLinks ==
    {Links(None, "", None), Links("u1", "u2", "u2")}
    \cup {Links(u, None, None) : u \in Urls}
    \cup {Links("", "u2", None), Links(None, None, "u1")}

ListingPages ==
    {Body(cards, links) : cards \in SeqsUpTo(SiteCards, MaxCards), links \in SiteLinks}

\* Pages of the paged site: any number of copies of one posting that gives no
\* career level, and a rel=next link to any page or none.
CardPlain == Card(<< <<"x">> >>, 1, "j1", FALSE)

PagedLinks == {Links(None, None, None)} \cup {Links(u, None, None) : u \in Urls}

PagedPages ==
    {Body(cards, links) : cards \in SeqsUpTo({CardPlain}, MaxCards), links \in PagedLinks}

\* Cards of the card site: no text node, one text node of at most MaxLen
\* tokens, or such a node after a leading node that either lacks the phrase
\* or holds it without a colon; with every choice of title anchor and href.
\* SeniorManager holds "Career Level: x: x".
Texts == SeqsUpTo(Tokens, MaxLen)
LeadTexts == {<<"x">>, <<"CL", " ", "x">>}
SeniorManager == <<"CL", ":", " ", "x", ":", " ", "x">>

CardStrings ==
    {<<>>, <<SeniorManager>>}
    \cup {<<t>> : t \in Texts}
    \cup {<<lead, t>> : lead \in LeadTexts, t \in Texts}

AllCards ==
    {Card(strings, 0, None, FALSE) : strings \in CardStrings}
    \cup UNION { {Card(strings, anchor, href, FALSE) :
                     anchor \in 1..Len(strings), href \in {None, "", "j1"}}
                 : strings \in CardStrings }

\* a last page holding any one card, after any number of pages holding CardA
CardPages ==
    {Body(<<card>>, Links(None, None, None)) : card \in AllCards}
    \cup {Body(<<CardA>>, Links("u1", None, None))}

\* what the target site can answer a successful GET with
SitePages(s) ==
    IF s = "paged" THEN PagedPages
    ELSE IF s = "listing" THEN ListingPages
    ELSE CardPages

\* ---------------------------------------------------- settings ----
\* HttpSettings' defaults (utils.py 24-31); durations in milliseconds
max_retries == 3
backoff_factor == 500
delay_between_requests_seconds == 1000

HttpSettings ==
    [max_retries |-> max_retries,
     backoff_factor |-> backoff_factor,
     delay_between_requests_seconds |-> delay_between_requests_seconds]

\* a search definition: url None when the key is missing; maxItems 0 when it
\* is missing, null or zero (all falsy in "maxItems or max_items_fallback")
SearchDefs == [url : {None, ""} \cup Urls, maxItems : 0..MaxItems]

\* what one GET can end in: a response with status < 400, a response with
\* status >= 400 (raise_for_status raises HTTPError) or no response at all
\* (ConnectionError, Timeout)
FailureKinds == {"HTTPError", "ConnectionError"}

\* Caught for "except requests.ConnectionError"
Caught_ConnectionOnly(exc) == exc = "ConnectionError"

\* line 61: except requests.RequestException
Caught(exc) == exc \in {"HTTPError", "ConnectionError"}

\* ------------------------------------------------------- state ----
VARIABLES
    site,                \* which pages the target site serves
    settings,            \* HttpClient.settings
    max_items_fallback,  \* argument of scrape_searches
    pc,                  \* control point
    consumed,            \* search definitions taken from `searches` so far
    all_jobs,            \* scrape_searches: all_jobs
    log,                 \* per consumed definition: its url, how it ended, its jobs
    search_url,          \* _scrape_single_search: search_url
    max_items,           \*                        max_items
    results,             \*                        results
    next_url,            \*                        next_url
    html,                \*                        html
    attempt,             \* fetch: attempt (0 outside fetch)
    delay,               \* fetch: delay
    response,            \* how the latest GET ended
    slept,               \* milliseconds slept after the latest GET
    next_page_url,       \* _parse_listing_page: next_page_url of the latest page
    page_log,            \* what became of the cards of the latest page
    emitted              \* the jobs of the pages parsed so far in this crawl

vars == <<site, settings, max_items_fallback, pc, consumed, all_jobs, log,
          search_url, max_items, results, next_url, html, attempt, delay,
          response, slept, next_page_url, page_log, emitted>>

inputs == <<site, settings, max_items_fallback>>
runner == <<consumed, all_jobs, log>>
crawl == <<search_url, max_items, results, next_url>>
fetching == <<attempt, delay, response, slept>>
parsing == <<next_page_url, page_log, emitted>>

\* not assigned yet
Unset == "<unset>"

\* page_log: the cards _parse_job_card returned None for, the cards it raised
\* on, and the jobs left out of results because of the cap
NoPage == [none |-> 0, raised |-> 0, dropped |-> 0]

InitWith(s) ==
    /\ site = s
    /\ settings = HttpSettings
    /\ max_items_fallback \in 1..MaxItems
    /\ pc = "runner"
    /\ consumed = 0
    /\ all_jobs = <<>>
    /\ log = <<>>
    /\ search_url = None
    /\ max_items = 0
    /\ results = <<>>
    /\ next_url = None
    /\ html = Unbound
    /\ attempt = 0
    /\ delay = 0
    /\ response = Unset
    /\ slept = 0
    /\ next_page_url = Unset
    /\ page_log = NoPage
    /\ emitted = <<>>

\* scrape_searches over several definitions, on the paged site
Init == InitWith("paged")

\* ------------------------------------------------ scrape_searches ----
\* lines 72-76: the next definition has no usable url
SkipSearch(search) ==
    /\ pc = "runner"
    /\ consumed < MaxSearches
    /\ ~Truthy(search.url)
    /\ consumed' = consumed + 1
    /\ log' = Append(log, [url |-> search.url, ended |-> "skipped", jobs |-> <<>>])
    /\ UNCHANGED <<inputs, pc, all_jobs, crawl, html, fetching, parsing>>

\* line 77: int(search.get("maxItems") or max_items_fallback)
EffectiveMaxItems(maxItems, fallback) == IF maxItems # 0 THEN maxItems ELSE fallback

\* lines 72-79 and 86-87: the next definition is crawled
StartSearch(search) ==
    /\ pc = "runner"
    /\ consumed < MaxSearches
    /\ Truthy(search.url)
    /\ consumed' = consumed + 1
    /\ max_items' = EffectiveMaxItems(search.maxItems, max_items_fallback)
    /\ search_url' = search.url
    /\ results' = <<>>
    /\ next_url' = search.url
    /\ pc' = "while"
    /\ UNCHANGED <<inputs, all_jobs, log, html, fetching, parsing>>

\* line 82: `searches` is exhausted
ReturnAll ==
    /\ pc = "runner"
    /\ pc' = "done"
    /\ UNCHANGED <<inputs, runner, crawl, html, fetching, parsing>>

\* ------------------------------------------ _scrape_single_search ----
\* WhileCondition without the test of the cap
WhileCondition_NoCap(url, res, cap) == Truthy(url)

\* line 89
WhileCondition(url, res, cap) == Truthy(url) /\ Len(res) < cap

\* lines 89-90 and 44-45: the loop goes on and calls fetch
EnterLoop ==
    /\ pc = "while"
    /\ WhileCondition(next_url, results, max_items)
    /\ pc' = "fetch"
    /\ attempt' = 1
    /\ delay' = settings.backoff_factor
    /\ response' = Unset
    /\ slept' = 0
    /\ UNCHANGED <<inputs, runner, crawl, html, parsing>>

\* line 89: the loop condition fails
ExitLoop ==
    /\ pc = "while"
    /\ ~WhileCondition(next_url, results, max_items)
    /\ pc' = "return"
    /\ UNCHANGED <<inputs, runner, crawl, html, fetching, parsing>>

\* what is remembered of the latest GET is dropped once html is looked at
FetchDone ==
    /\ response' = Unset
    /\ slept' = 0
    /\ UNCHANGED <<attempt, delay>>

\* BreakOnFailure giving up the records of the earlier pages
BreakOnFailure_DropResults ==
    /\ pc = "fetched"
    /\ html = NoBody
    /\ pc' = "return"
    /\ results' = <<>>
    /\ FetchDone
    /\ UNCHANGED <<inputs, runner, search_url, max_items, next_url, html, parsing>>

\* lines 91-93
BreakOnFailure ==
    /\ pc = "fetched"
    /\ html = NoBody
    /\ pc' = "return"
    /\ FetchDone
    /\ UNCHANGED <<inputs, runner, crawl, html, parsing>>

\* AppendJobs without the test of lines 97-98
AppendJobs_NoCap(res, jobs, cap) == res \o jobs

\* AppendJobs putting the jobs of the latest page first
AppendJobs_NewestFirst(res, jobs, cap) == Take(jobs \o res, cap)

\* lines 96-99: results after the page's jobs were appended up to the cap
AppendJobs(res, jobs, cap) ==
    res \o Take(jobs, IF cap > Len(res) THEN cap - Len(res) ELSE 0)

\* NextUrl staying on the current page when the page names no next one
NextUrl_KeepCurrent(parsed_next, current_url) ==
    IF Truthy(parsed_next) THEN parsed_next ELSE current_url

\* line 95: the url the loop goes on with
NextUrl(parsed_next, current_url) == parsed_next

\* lines 95-102; html is not read again before line 90 rebinds it, so the
\* model forgets the body once it is parsed
ProcessPage ==
    /\ pc = "fetched"
    /\ html.kind = "body"
    /\ LET parsed == _parse_listing_page(html, search_url, next_url)
           appended == AppendJobs(results, parsed.jobs, max_items)
           url == NextUrl(parsed.next_page_url, next_url)
       IN  /\ results' = appended
           /\ next_url' = url
           /\ next_page_url' = parsed.next_page_url
           /\ page_log' =
                 [none |-> Cardinality({i \in DOMAIN html.cards :
                              /\ ~html.cards[i].faulty
                              /\ _parse_job_card(html.cards[i], search_url, next_url) = <<>>}),
                  raised |-> Cardinality({i \in DOMAIN html.cards : html.cards[i].faulty}),
                  dropped |-> Len(results) + Len(parsed.jobs) - Len(appended)]
           /\ emitted' = emitted \o parsed.jobs
           /\ pc' = IF ~Truthy(url) THEN "return" ELSE "while"
    /\ html' = Unbound
    /\ FetchDone
    /\ UNCHANGED <<inputs, runner, search_url, max_items>>

\* ExtendAllJobs leaving out the jobs it already holds
RECURSIVE ExtendAllJobs_Dedup(_, _)
ExtendAllJobs_Dedup(jobs_so_far, jobs) ==
    IF jobs = <<>> THEN jobs_so_far
    ELSE ExtendAllJobs_Dedup(
             IF \E i \in DOMAIN jobs_so_far : jobs_so_far[i] = to_dict(Head(jobs))
             THEN jobs_so_far ELSE Append(jobs_so_far, to_dict(Head(jobs))),
             Tail(jobs))

\* line 81: all_jobs.extend(job.to_dict() for job in jobs)
ExtendAllJobs(jobs_so_far, jobs) ==
    jobs_so_far \o [i \in 1..Len(jobs) |-> to_dict(jobs[i])]

\* how the crawl ended: by the break of line 93, or otherwise
Ended == IF html = NoBody THEN "fetch_failed" ELSE "completed"

\* lines 104 and 80-81: results go back to scrape_searches
ReturnResults ==
    /\ pc = "return"
    /\ all_jobs' = ExtendAllJobs(all_jobs, results)
    /\ log' = Append(log, [url |-> search_url, ended |-> Ended, jobs |-> results])
    /\ pc' = "runner"
    /\ search_url' = None
    /\ max_items' = 0
    /\ results' = <<>>
    /\ next_url' = None
    /\ html' = Unbound
    /\ next_page_url' = Unset
    /\ page_log' = NoPage
    /\ emitted' = <<>>
    /\ UNCHANGED <<inputs, consumed, fetching>>

\* ------------------------------------------------ HttpClient.fetch ----
\* lines 48-60: the GET succeeds; fetch sleeps the inter-request delay and
\* returns the body
GetOk ==
    /\ pc = "fetch"
    /\ \E page \in SitePages(site) : html' = page
    /\ response' = "ok"
    /\ slept' = IF settings.delay_between_requests_seconds > 0
                THEN settings.delay_between_requests_seconds ELSE 0
    /\ attempt' = 0
    /\ delay' = 0
    /\ pc' = "fetched"
    /\ next_page_url' = Unset
    /\ page_log' = NoPage
    /\ UNCHANGED <<inputs, runner, crawl, emitted>>

\* GetFail without "delay *= 2"
GetFail_ConstantBackoff(exc) ==
    /\ pc = "fetch"
    /\ response' = exc
    /\ IF ~Caught(exc)
       THEN /\ pc' = "raised"
            /\ UNCHANGED <<html, attempt, delay, slept>>
       ELSE IF attempt = settings.max_retries
       THEN /\ html' = NoBody
            /\ slept' = 0
            /\ attempt' = 0
            /\ delay' = 0
            /\ pc' = "fetched"
       ELSE /\ slept' = delay
            /\ delay' = delay
            /\ attempt' = attempt + 1
            /\ pc' = "fetch"
            /\ UNCHANGED html
    /\ UNCHANGED <<inputs, runner, crawl, parsing>>

\* lines 61-73: the GET fails with exc
GetFail(exc) ==
    /\ pc = "fetch"
    /\ response' = exc
    /\ IF ~Caught(exc)
       THEN /\ pc' = "raised"
            /\ UNCHANGED <<html, attempt, delay, slept>>
       ELSE IF attempt = settings.max_retries
       THEN /\ html' = NoBody
            /\ slept' = 0
            /\ attempt' = 0
            /\ delay' = 0
            /\ pc' = "fetched"
       ELSE /\ slept' = delay
            /\ delay' = delay * 2
            /\ attempt' = attempt + 1
            /\ pc' = "fetch"
            /\ UNCHANGED html
    /\ UNCHANGED <<inputs, runner, crawl, parsing>>

Next ==
    \/ \E search \in SearchDefs : SkipSearch(search)
    \/ \E search \in SearchDefs : StartSearch(search)
    \/ ReturnAll
    \/ EnterLoop
    \/ ExitLoop
    \/ GetOk
    \/ \E exc \in FailureKinds : GetFail(exc)
    \/ BreakOnFailure
    \/ ProcessPage
    \/ ReturnResults

Spec == Init /\ [][Next]_vars

\* The program is sequential and nothing outside it blocks a step: a step
\* that can be taken is taken.
FairSpec == Spec /\ WF_vars(Next)

\* _scrape_single_search on the first definition, on the listing site
CrawlNext ==
    \/ \E search \in SearchDefs : StartSearch(search)
    \/ EnterLoop
    \/ ExitLoop
    \/ GetOk
    \/ \E exc \in FailureKinds : GetFail(exc)
    \/ BreakOnFailure
    \/ ProcessPage

CrawlInit == InitWith("listing")
CrawlSpec == CrawlInit /\ [][CrawlNext]_vars

\* the same on the card site
ExtractInit == InitWith("cards")
ExtractSpec == ExtractInit /\ [][CrawlNext]_vars

\* ====================================================== properties ====
\* ---- C1 ----
\* C1: a crawl with positive cap max_items never holds more than max_items
\* records, and no GET is in flight or answered once it holds max_items.
C1_CapRespected ==
    /\ Len(results) <= max_items
    /\ pc \in {"fetch", "fetched"} => Len(results) < max_items

\* the cap was reached in the middle of a page that names a next page, and the
\* crawl returned
C1_CapReachedMidPage ==
    /\ pc = "return"
    /\ max_items > 0
    /\ Len(results) = max_items
    /\ page_log.dropped > 0
    /\ Truthy(next_url)

\* ---- C3 ----
\* C3: once the resolver returned None for a page, fetch is not called again
\* in that crawl.
C3_NoFetchAfterNoNext == next_page_url = None => pc \notin {"fetch", "fetched"}

\* the resolver returned None below the cap, and the crawl returned
C3_NoNextBelowCap ==
    /\ pc = "return"
    /\ next_page_url = None
    /\ Len(results) < max_items

\* ---- C2 ----
\* C2: when fetch returns None, the crawl leaves the loop with the records it
\* held, hands exactly them to scrape_searches, which appends them to all_jobs
\* and goes on with the definitions not yet consumed.
C2_FailureEndsOnlyThatSearch ==
    [][/\ (pc = "fetched" /\ html = NoBody) =>
             /\ pc' = "return"
             /\ results' = results
             /\ html' = NoBody
       /\ (pc = "return" /\ html = NoBody) =>
             /\ pc' = "runner"
             /\ consumed' = consumed
             /\ Len(all_jobs') = Len(all_jobs) + Len(results)
             /\ \A i \in 1..Len(results) :
                    all_jobs'[Len(all_jobs) + i] = to_dict(results[i])
             /\ \A i \in 1..Len(all_jobs) : all_jobs'[i] = all_jobs[i]]_vars

\* a search that failed on a later page kept its records, and a later search
\* was crawled and gave records
C2_PartialThenLater ==
    \E i, j \in DOMAIN log :
        /\ i < j
        /\ log[i].ended = "fetch_failed"
        /\ log[i].jobs # <<>>
        /\ log[j].ended = "completed"
        /\ log[j].jobs # <<>>
        /\ Len(all_jobs) >= Len(log[i].jobs) + Len(log[j].jobs)

\* ---- C4 ----
\* C4: every run of scrape_searches completes (pc reaches "done"), whatever
\* the site answers.
C4_RunCompletes == <>(pc = "done")

\* ---- C5 ----
\* C5: while in fetch, attempt is between 1 and max_retries; a GET that
\* succeeds makes fetch return its body at once; fetch returns None only from
\* attempt max_retries with a failed GET; every GET before another attempt
\* failed; fetch never raises.
C5_FetchContract ==
    [][pc = "fetch" =>
          /\ attempt \in 1..settings.max_retries
          /\ pc' \in {"fetch", "fetched"}
          /\ response' = "ok" => (pc' = "fetched" /\ html'.kind = "body")
          /\ (pc' = "fetched" /\ html' = NoBody) =>
                 (attempt = settings.max_retries /\ response' \in FailureKinds)
          /\ pc' = "fetch" =>
                 (attempt' = attempt + 1 /\ response' \in FailureKinds)]_vars

\* fetch returned None after a GET answered with status >= 400
C5_GaveUpOnHttpError == pc = "fetched" /\ html = NoBody /\ response = "HTTPError"

\* ---- C6 ----
\* C6: a definition is skipped exactly when its url is missing or empty; a
\* skipped definition gives no records, no crawl (hence no fetch) ever runs
\* on a missing or empty url, nothing is raised, and a run over skipped
\* definitions only returns the empty list.
C6_SkipsMissingUrl ==
    /\ \A i \in DOMAIN log :
           /\ log[i].ended = "skipped" <=> log[i].url \in {None, ""}
           /\ log[i].ended = "skipped" => log[i].jobs = <<>>
    /\ pc \in {"while", "fetch", "fetched", "return"} => search_url \in Urls
    /\ pc # "raised"
    /\ (pc = "done" /\ \A i \in DOMAIN log : log[i].url \in {None, ""}) =>
           all_jobs = <<>>

\* the run returned after skipping a definition with an empty url and crawling
\* the one after it, which gave records
C6_SkippedThenCrawled ==
    /\ pc = "done"
    /\ Len(log) = 2
    /\ log[1].url = "" /\ log[1].ended = "skipped"
    /\ log[2].url \in Urls /\ log[2].jobs # <<>>
    /\ Len(all_jobs) = Len(log[2].jobs)

\* ---- C7 ----
\* C7: all_jobs is the concatenation, in input order, of the records each
\* consumed definition's crawl returned, and every record carries as
\* searchUrl the url of its definition.
C7_ConcatenationInOrder ==
    /\ all_jobs = Flatten([i \in DOMAIN log |->
                     [k \in DOMAIN log[i].jobs |->
                         [searchUrl |-> log[i].url,
                          jobTitle |-> log[i].jobs[k].jobTitle,
                          jobLink |-> log[i].jobs[k].jobLink,
                          jobCareerLevel |-> log[i].jobs[k].jobCareerLevel]]])
    /\ \A k \in DOMAIN results : results[k].searchUrl = search_url

\* the run returned the same posting under two search urls, and twice under
\* one of them
C7_SamePostingTwice ==
    /\ pc = "done"
    /\ \E i, j, k \in DOMAIN all_jobs :
           /\ i < j /\ j < k
           /\ all_jobs[i].jobLink = all_jobs[k].jobLink
           /\ all_jobs[i].searchUrl = all_jobs[j].searchUrl
           /\ all_jobs[i] = all_jobs[j]
           /\ all_jobs[i].searchUrl # all_jobs[k].searchUrl

\* ---- C8 ----
\* C8: every record held has a title or a link, and a page adds one record per
\* card that has a title or a link (up to the cap): a card with neither adds
\* none and leaves the budget to the cards after it.
C8_HasTitleOrLink(card, current_url) ==
    /\ ~card.faulty
    /\ \/ (card.anchor # 0 /\ Strip(CollapseWs(card.strings[card.anchor])) # <<>>)
       \/ (card.anchor # 0 /\ card.href \notin {None, ""})

C8_AdmissibilityGate ==
    [][(pc = "fetched" /\ html.kind = "body") =>
          /\ \A i \in DOMAIN results' :
                 results'[i].jobTitle # <<>> \/ results'[i].jobLink # ""
          /\ Len(results') =
                 Min(max_items,
                     Len(results) + Cardinality({i \in DOMAIN html.cards :
                                        C8_HasTitleOrLink(html.cards[i], next_url)}))]_vars

\* a page with a card lacking both and a card after or before it that filled
\* the cap of one
C8_GateLeftBudget ==
    /\ page_log.none > 0
    /\ page_log.dropped = 0
    /\ max_items = 1
    /\ Len(results) = 1

\* ---- C9 ----
\* C9's remainder: what follows the first colon of the first text node holding
\* the phrase, trimmed; empty without such a node or without a colon
RECURSIVE C9_AfterFirstColon(_)
C9_AfterFirstColon(text) ==
    IF text = <<>> THEN <<>>
    ELSE IF Head(text) = ":" THEN Tail(text)
    ELSE C9_AfterFirstColon(Tail(text))

C9_Remainder(card) ==
    IF CareerEl(card) = 0 THEN <<>>
    ELSE Strip(C9_AfterFirstColon(card.strings[CareerEl(card)]))

\* C9: the record made from a card carries as jobCareerLevel the whole trimmed
\* remainder after the first colon of the first text node holding "Career
\* Level", and the empty string without such a node or without a colon.
C9_WholeRemainder ==
    [][(/\ pc = "fetched"
        /\ html.kind = "body"
        /\ Len(html.cards) = 1
        /\ Len(results') = Len(results) + 1) =>
          results'[Len(results')].jobCareerLevel = C9_Remainder(html.cards[1])]_vars

\* ---- C10 ----
\* C10 as stated: when jobs of a page were left out because of the cap, the
\* next page of that page was not resolved.
C10_NoResolutionAtCap == page_log.dropped > 0 => next_page_url = Unset

\* C10: when jobs of a page were left out because of the cap, results holds
\* exactly max_items records and no further GET is made; the next page of
\* that page was resolved during parsing and is not followed.
C10_StopsAtCap ==
    page_log.dropped > 0 =>
        /\ Len(results) = max_items
        /\ pc \notin {"fetch", "fetched"}
        /\ next_page_url # Unset

\* jobs were left out at the cap on a page whose next page resolved to a url
C10_DroppedWithNext ==
    /\ page_log.dropped > 0
    /\ Truthy(next_page_url)
    /\ pc = "return"

\* ---- C11 ----
\* C11: for every fetched page, with or without records, the next page is
\* resolved from the page's links; when it resolves to a url below the cap the
\* loop goes on and that url is the one fetched next; and the crawl returns
\* only after a failed fetch, without a next url, or at the cap.
C11_EmptyPageGoesOn ==
    [][/\ (pc = "fetched" /\ html.kind = "body") =>
             /\ next_page_url' = _find_next_page_url(html.links, next_url)
             /\ (Truthy(next_page_url') /\ Len(results') < max_items) =>
                    (pc' = "while" /\ next_url' = next_page_url')
       /\ (pc = "while" /\ Truthy(next_url) /\ Len(results) < max_items) =>
             (pc' = "fetch" /\ next_url' = next_url)
       /\ (pc # "return" /\ pc' = "return") =>
             \/ (pc = "fetched" /\ html = NoBody)
             \/ ~Truthy(next_url')
             \/ Len(results') >= max_items]_vars

\* the page before gave no record and named a next page, which is being fetched
C11_FetchAfterEmptyPage ==
    /\ pc = "fetch"
    /\ results = <<>>
    /\ Truthy(next_page_url)
    /\ next_url = next_page_url

\* ---- C12 ----
RECURSIVE C12_Pow2(_)
C12_Pow2(n) == IF n = 0 THEN 1 ELSE 2 * C12_Pow2(n - 1)

\* C12: after the failed GET of attempt a < max_retries fetch sleeps
\* backoff_factor * 2^(a-1) and nothing else; after the failed GET of attempt
\* max_retries it does not sleep; after a successful GET it sleeps the
\* inter-request delay, once, and returns.
C12_BackoffSchedule ==
    [][pc = "fetch" =>
          /\ (response' \in FailureKinds /\ attempt < settings.max_retries) =>
                 (slept' = settings.backoff_factor * C12_Pow2(attempt - 1) /\ pc' = "fetch")
          /\ (response' \in FailureKinds /\ attempt = settings.max_retries) =>
                 (slept' = 0 /\ pc' = "fetched")
          /\ response' = "ok" =>
                 (slept' = settings.delay_between_requests_seconds /\ pc' = "fetched")]_vars

\* the second GET failed and fetch slept twice the backoff factor before the
\* last attempt
C12_SleptBeforeLastAttempt ==
    /\ pc = "fetch"
    /\ attempt = settings.max_retries
    /\ attempt = 3
    /\ response \in FailureKinds
    /\ slept = 2 * settings.backoff_factor

\* ---- C13 ----
\* what a page gives when every card that raises is left out and every other
\* card is parsed as if it were alone
C13_Alone(page, search_url_, current_url) ==
    Flatten([i \in DOMAIN page.cards |->
                IF page.cards[i].faulty THEN <<>>
                ELSE _parse_listing_page(Body(<<page.cards[i]>>, page.links),
                                         search_url_, current_url).jobs])

\* C13: a card that raises gives no record; the records appended for a page
\* are those its other cards give alone, in order and up to the cap; the
\* page's next page is resolved all the same, nothing is raised to the caller
\* and the loop goes on when there is a next url below the cap.
C13_CardExceptionCaught ==
    [][(pc = "fetched" /\ html.kind = "body") =>
          /\ results' = Take(results \o C13_Alone(html, search_url, next_url), max_items)
          /\ next_page_url' = _find_next_page_url(html.links, next_url)
          /\ pc' \in {"while", "return"}
          /\ (Truthy(next_page_url') /\ Len(results') < max_items) => pc' = "while"]_vars

\* a card of the first page raised, another card of that page gave the one
\* record that was asked for, and the next page of that page was resolved
C13_SiblingKept ==
    /\ page_log.raised > 0
    /\ page_log.dropped = 0
    /\ max_items = 1
    /\ Len(results) = 1
    /\ Truthy(next_page_url)

\* ---- C14 ----
\* C14: results is the first min(max_items, N) jobs of emitted, the jobs of
\* the pages parsed so far in the order they were parsed (N its length); a
\* GET is issued only when no page waits to be processed, and the url fetched
\* is the start url for the first page and the next url resolved on the page
\* before for every other.
C14_PrefixOfPagesInOrder ==
    [][/\ results' = SubSeq(emitted', 1, Min(max_items', Len(emitted')))
       /\ pc' = "fetch" => html'.kind = "unbound"
       /\ (pc = "while" /\ pc' = "fetch") =>
              next_url = IF next_page_url = Unset THEN search_url
                         ELSE next_page_url]_vars

\* the crawl returned the first two of three jobs found on more than one page
C14_CutOnLaterPage ==
    /\ pc = "return"
    /\ max_items = 2
    /\ Len(emitted) = 3
    /\ Len(emitted) > MaxCards
    /\ emitted[1] # emitted[2]
    /\ results = <<emitted[1], emitted[2]>>

====
